---- MODULE Spec2Model ----
(***************************************************************************)
(* The five-round PLONK prover of src/prover.py (Prover.prove and its      *)
(* rounds), over a toy scalar field: F_17 with an evaluation domain H of   *)
(* order group_order = 2 and the 4x finer domain H' of order 8.            *)
(*                                                                         *)
(* The field, the polynomial engine (poly.py), the trusted setup           *)
(* (setup.py), the circuit front-end (compiler/) and the transcript        *)
(* (transcript.py) are collaborators of the prover whose code is not in    *)
(* src/; they are modelled from their contracts in spec.md sections 3, 4.1,*)
(* 4.3 and 6.                                                              *)
(***************************************************************************)
EXTENDS Integers, Sequences, FiniteSets, TLC

VARIABLES
    program,     \* Prover.program / Prover.pk, fixed at construction
    witness,     \* the caller's witness mapping (round_1 may add the None key)
    self,        \* the attributes the rounds have stored on the Prover object
    pc,          \* position inside prove: "idle", a step of prove_steps, "returned", "raised"
    transcript,  \* prove's local Transcript: the label and the messages absorbed
    msgs,        \* prove's locals msg_1 .. msg_5 (k :> message)
    oracle,      \* the hash behind the transcript, sampled lazily: absorbed history :> challenges
    results,     \* what each finished prove call gave its caller, oldest first
    writes       \* per attribute, how often the current prove call has assigned it

vars == <<program, witness, self, pc, transcript, msgs, oracle, results, writes>>

----------------------------------------------------------------------------
(* Bounds of the model *)

\* number of prove invocations followed per behaviour
MaxCalls == 2

----------------------------------------------------------------------------
(* The scalar field (Scalar, an external prime-field library) *)

\* Scalar.field_modulus of the toy field
P == 17

\* the multiplicative generator roots of unity are derived from
Generator == 3

F == 0 .. (P - 1)

Scalar(x) == x % P

RECURSIVE Pow(_, _)
Pow(a, e) == IF e = 0 THEN 1 ELSE (a * Pow(a, e - 1)) % P

\* inverse by Fermat; the library extends it to 0 by inv0(0) = 0 and never raises
InvTable == [a \in F |-> IF a = 0 THEN 0 ELSE Pow(a, P - 2)]

Inv(a) == InvTable[a % P]

\* a / b of two Scalars: a * inv0(b)
Div(a, b) == (a * Inv(b)) % P

root_of_unity(order) == Pow(Generator, (P - 1) \div order)

roots_of_unity(order) == [i \in 1 .. order |-> Pow(root_of_unity(order), i - 1)]

RECURSIVE SumSeq(_)
SumSeq(s) == IF s = <<>> THEN 0 ELSE (Head(s) + SumSeq(Tail(s))) % P

Zeros(m) == [i \in 1 .. m |-> 0]

----------------------------------------------------------------------------
(* The polynomial engine (Polynomial of poly.py), spec.md 3 and 4.1.       *)
(* A polynomial is the sequence of its values; index i of the source is    *)
(* index i + 1 here.                                                       *)

\* MONOMIAL -> LAGRANGE over the domain of order Len(coeffs): forward DFT
fft(coeffs) ==
    LET m == Len(coeffs)
        w == root_of_unity(m)
    IN  [i \in 1 .. m |->
            SumSeq([j \in 1 .. m |-> coeffs[j] * Pow(w, ((i - 1) * (j - 1)) % m)])]

\* LAGRANGE -> MONOMIAL: inverse DFT
ifft(values) ==
    LET m == Len(values)
        w == root_of_unity(m)
    IN  [j \in 1 .. m |->
            Div(SumSeq([i \in 1 .. m |->
                    values[i] * Pow(w, ((m - (i - 1)) * (j - 1)) % m)]), m)]

\* LAGRANGE (length n) -> evaluations on the coset offset * H' (length 4n):
\* to monomial, substitute X <- offset * X, length-4n FFT
to_coset_extended_lagrange(values, offset) ==
    LET c == ifft(values) \o Zeros(3 * Len(values))
    IN  fft([j \in 1 .. Len(c) |-> (c[j] * Pow(offset, j - 1)) % P])

\* evaluations on the coset (length 4n) -> MONOMIAL: inverse FFT, X <- X / offset
coset_extended_lagrange_to_coeffs(values, offset) ==
    LET c == ifft(values)
        inv_offset == Inv(offset)
    IN  [j \in 1 .. Len(c) |-> (c[j] * Pow(inv_offset, j - 1)) % P]

\* the value at x of the interpolant of a LAGRANGE polynomial, also when x is
\* one of the roots of unity
barycentric_eval(values, x) ==
    LET c == ifft(values)
    IN  SumSeq([j \in 1 .. Len(c) |-> c[j] * Pow(x, j - 1)])

\* rotate the evaluations left by k positions
shift(values, k) ==
    LET m == Len(values)
    IN  [i \in 1 .. m |-> values[((i - 1 + k) % m) + 1]]

----------------------------------------------------------------------------
(* The trusted setup (Setup of setup.py), spec.md 6 *)

\* the secret point of the structured reference string
Tau == 5

\* KZG: the commitment to a polynomial is [p(tau)]G; a group element is
\* written by its discrete logarithm
commit(values) == barycentric_eval(values, Tau)

----------------------------------------------------------------------------
(* The circuit front-end (Program of compiler/program.py), spec.md 6 *)

\* program.group_order: the size n of the evaluation domain H
group_order == 2

\* the empty wire, Python's None, as a key of the witness mapping
NoWire == "None"

\* row 0: x is public; row 1: x * x = y
ProgramSquare ==
    [ wires  |-> << <<"x", NoWire, NoWire>>, <<"x", "x", "y">> >>,
      QL     |-> <<1, 0>>,
      QR     |-> <<0, 0>>,
      QM     |-> <<0, 1>>,
      QO     |-> <<0, P - 1>>,
      QC     |-> <<0, 0>>,
      public |-> <<"x">> ]

\* row 0: x is public; one gate only, so row 1 is padding
ProgramPublic ==
    [ wires  |-> << <<"x", NoWire, NoWire>> >>,
      QL     |-> <<1, 0>>,
      QR     |-> <<0, 0>>,
      QM     |-> <<0, 0>>,
      QO     |-> <<0, 0>>,
      QC     |-> <<0, 0>>,
      public |-> <<"x">> ]

\* the cells <<column, row>> of the wire table, columns 1..3 = L, R, O
Cells == (1 .. 3) \X (1 .. group_order)

\* the variable wired to a cell; rows past the last gate hold the empty wire
var_at(prog, cell) ==
    IF cell[2] <= Len(prog.wires) THEN prog.wires[cell[2]][cell[1]] ELSE NoWire

\* the order in which the front-end walks the cells of one variable
cell_order(cell) == (cell[1] - 1) * group_order + cell[2]

\* Cell.label: the column's coset constant 1, 2, 3 times omega^row
cell_label(cell) == (cell[1] * roots_of_unity(group_order)[cell[2]]) % P

\* the cell the copy permutation sends to `cell`: the cyclic predecessor among
\* the cells wired to the same variable
prev_cell(prog, cell) ==
    LET uses  == {d \in Cells : var_at(prog, d) = var_at(prog, cell)}
        below == {d \in uses : cell_order(d) < cell_order(cell)}
        pick  == IF below = {} THEN uses ELSE below
    IN  CHOOSE d \in pick : \A e \in pick : cell_order(e) <= cell_order(d)

\* the permutation polynomial of one column, in LAGRANGE form
s_polynomial(prog, column) ==
    [row \in 1 .. group_order |-> cell_label(prev_cell(prog, <<column, row>>))]

\* program.common_preprocessed_input(): selectors and permutation polynomials
common_preprocessed_input(prog) ==
    [ QL |-> prog.QL, QR |-> prog.QR, QM |-> prog.QM, QO |-> prog.QO, QC |-> prog.QC,
      S1 |-> s_polynomial(prog, 1),
      S2 |-> s_polynomial(prog, 2),
      S3 |-> s_polynomial(prog, 3) ]

----------------------------------------------------------------------------
(* Prover: helpers *)

\* Prover.fft_expand
fft_expand(s, x) == to_coset_extended_lagrange(x, s.fft_cofactor)

\* Prover.expanded_evals_to_coeffs
expanded_evals_to_coeffs(s, x) == coset_extended_lagrange_to_coeffs(x, s.fft_cofactor)

\* rlc with beta on the wrong term
rlc_swapped(s, term_1, term_2) == (term_1 * s.beta + term_2 + s.gamma) % P

\* Prover.rlc
rlc(s, term_1, term_2) == (term_1 + term_2 * s.beta + s.gamma) % P

\* the LAGRANGE polynomial L0 = [1, 0, .., 0]
L0_values == [i \in 1 .. group_order |-> IF i = 1 THEN 1 ELSE 0]

\* the public-input polynomial PI built at the start of prove
PI_values(prog, wit) ==
    [i \in 1 .. group_order |->
        IF i <= Len(prog.public) THEN Scalar(0 - wit[prog.public[i]]) ELSE 0]

----------------------------------------------------------------------------
(* Round 1 *)

\* round_1 assigning witness[None] = 0 whether or not the key is there
with_empty_wire_overwrite(wit) ==
    [k \in DOMAIN wit \cup {NoWire} |-> IF k = NoWire THEN 0 ELSE wit[k]]

\* `if None not in witness: witness[None] = 0`
with_empty_wire(wit) == IF NoWire \in DOMAIN wit THEN wit ELSE (NoWire :> 0) @@ wit

\* A_values, B_values, C_values: column 1, 2, 3 of the wire table under the witness
wire_values(prog, wit, column) ==
    [i \in 1 .. group_order |->
        IF i <= Len(prog.wires) THEN Scalar(wit[prog.wires[i][column]]) ELSE 0]

\* gate_check with the last row of H left out
gate_check_short(pk, PI, A, B, C) ==
    \A i \in 1 .. (group_order - 1) :
        (A[i] * pk.QL[i] + B[i] * pk.QR[i] + A[i] * B[i] * pk.QM[i]
            + C[i] * pk.QO[i] + PI[i] + pk.QC[i]) % P = 0

\* the gate sanity check of round_1, a LAGRANGE identity over H
gate_check(pk, PI, A, B, C) ==
    \A i \in 1 .. group_order :
        (A[i] * pk.QL[i] + B[i] * pk.QR[i] + A[i] * B[i] * pk.QM[i]
            + C[i] * pk.QO[i] + PI[i] + pk.QC[i]) % P = 0

\* Prover.round_1: the witness as it leaves it, the attributes it stores
\* (stored before the assertion), whether the assertion passes, and Message1
round_1(prog, s, wit) ==
    LET w  == with_empty_wire(wit)
        pk == common_preprocessed_input(prog)
        A  == wire_values(prog, w, 1)
        B  == wire_values(prog, w, 2)
        C  == wire_values(prog, w, 3)
    IN  [ witness |-> w,
          attrs   |-> [A |-> A, B |-> B, C |-> C],
          ok      |-> gate_check(pk, s.PI, A, B, C),
          msg     |-> <<commit(A), commit(B), commit(C)>> ]

----------------------------------------------------------------------------
(* Round 2 *)

\* Z_step with column C put in the coset of column B
Z_step_same_coset(s, pk, i, z) ==
    LET w == roots_of_unity(group_order)
    IN  Div(Div(Div((z * rlc(s, s.A[i], w[i])
                       * rlc(s, s.B[i], 2 * w[i])
                       * rlc(s, s.C[i], 2 * w[i])) % P,
                    rlc(s, s.A[i], pk.S1[i])),
                rlc(s, s.B[i], pk.S2[i])),
            rlc(s, s.C[i], pk.S3[i]))

\* one step of the grand product: Z_i from Z_{i-1} and row i (rows from 1)
Z_step(s, pk, i, z) ==
    LET w == roots_of_unity(group_order)
    IN  Div(Div(Div((z * rlc(s, s.A[i], w[i])
                       * rlc(s, s.B[i], 2 * w[i])
                       * rlc(s, s.C[i], 3 * w[i])) % P,
                    rlc(s, s.A[i], pk.S1[i])),
                rlc(s, s.B[i], pk.S2[i])),
            rlc(s, s.C[i], pk.S3[i]))

\* Z_values after i steps: <<Z_0, .., Z_i>>
RECURSIVE Z_acc(_, _, _)
Z_acc(s, pk, i) ==
    IF i = 0 THEN <<1>>
    ELSE LET prev == Z_acc(s, pk, i - 1)
         IN  Append(prev, Z_step(s, pk, i, prev[Len(prev)]))

\* the row-by-row sanity check of Z, with the wrap-around at the last row
Z_local_check(s, pk, Z) ==
    LET w == roots_of_unity(group_order)
    IN  \A i \in 1 .. group_order :
            ( rlc(s, s.A[i], w[i]) * rlc(s, s.B[i], 2 * w[i]) * rlc(s, s.C[i], 3 * w[i])
                  * Z[i]
              - rlc(s, s.A[i], pk.S1[i]) * rlc(s, s.B[i], pk.S2[i])
                  * rlc(s, s.C[i], pk.S3[i]) * Z[(i % group_order) + 1] ) % P = 0

\* Prover.round_2
round_2(prog, s) ==
    LET pk       == common_preprocessed_input(prog)
        Z_values == Z_acc(s, pk, group_order)
        Z        == SubSeq(Z_values, 1, group_order)
        ok       == Z_values[group_order + 1] = 1 /\ Z_local_check(s, pk, Z)
    IN  [ ok    |-> ok,
          attrs |-> IF ok THEN [Z |-> Z] ELSE <<>>,
          msg   |-> <<commit(Z)>> ]

----------------------------------------------------------------------------
(* Round 3 *)

\* quarter_roots: the powers of mu, mu^(4n) = 1
quarter_roots == roots_of_unity(group_order * 4)

\* ZH_values on H' itself, the coset shift forgotten
ZH_values_no_cofactor(fft_cofactor) ==
    [i \in 1 .. 4 * group_order |->
        (Pow(quarter_roots[i], group_order) + P - 1) % P]

\* Z_H = X^n - 1 tabulated on the coset fft_cofactor * H'
ZH_values(fft_cofactor) ==
    [i \in 1 .. 4 * group_order |->
        (Pow((quarter_roots[i] * fft_cofactor) % P, group_order) + P - 1) % P]

\* Z_one_step: Z_big rotated by one position of the fine domain, Z(mu * X)
Z_one_step(Z_big) == shift(Z_big, 1)

\* Z_shifted_big = Z_big.shift(4): Z(omega * X) on the coset, omega = mu^4
Z_shifted(Z_big) == shift(Z_big, 4)

\* QUOT_values: the quotient, point by point on the coset
QUOT_values(s, pk) ==
    LET k    == s.fft_cofactor
        A_big  == fft_expand(s, s.A)
        B_big  == fft_expand(s, s.B)
        C_big  == fft_expand(s, s.C)
        PI_big == fft_expand(s, s.PI)
        QL_big == fft_expand(s, pk.QL)
        QR_big == fft_expand(s, pk.QR)
        QM_big == fft_expand(s, pk.QM)
        QO_big == fft_expand(s, pk.QO)
        QC_big == fft_expand(s, pk.QC)
        Z_big  == fft_expand(s, s.Z)
        Z_shifted_big == Z_shifted(Z_big)
        S1_big == fft_expand(s, pk.S1)
        S2_big == fft_expand(s, pk.S2)
        S3_big == fft_expand(s, pk.S3)
        ZH_big == ZH_values(k)
        L0_big == fft_expand(s, L0_values)
    IN  [i \in 1 .. 4 * group_order |->
          Div(( ( A_big[i] * QL_big[i] + B_big[i] * QR_big[i]
                  + A_big[i] * B_big[i] * QM_big[i] + C_big[i] * QO_big[i]
                  + PI_big[i] + QC_big[i] )
                + ( rlc(s, A_big[i], k * quarter_roots[i])
                    * rlc(s, B_big[i], 2 * k * quarter_roots[i])
                    * rlc(s, C_big[i], 3 * k * quarter_roots[i]) ) * s.alpha * Z_big[i]
                - ( rlc(s, A_big[i], S1_big[i])
                    * rlc(s, B_big[i], S2_big[i])
                    * rlc(s, C_big[i], S3_big[i]) ) * s.alpha * Z_shifted_big[i]
                + (Z_big[i] + P - 1) * L0_big[i] * Pow(s.alpha, 2) ) % P,
              ZH_big[i])]

\* round_3_expansions with A_big stored over self.A
round_3_expansions_over_A(s, pk) ==
    [ quarter_roots |-> quarter_roots,
      A      |-> fft_expand(s, s.A),
      B_big  |-> fft_expand(s, s.B),
      C_big  |-> fft_expand(s, s.C),
      S1_big |-> fft_expand(s, pk.S1),
      S2_big |-> fft_expand(s, pk.S2),
      S3_big |-> fft_expand(s, pk.S3) ]

\* the attributes round_3 stores before its first assertion
round_3_expansions(s, pk) ==
    [ quarter_roots |-> quarter_roots,
      A_big  |-> fft_expand(s, s.A),
      B_big  |-> fft_expand(s, s.B),
      C_big  |-> fft_expand(s, s.C),
      S1_big |-> fft_expand(s, pk.S1),
      S2_big |-> fft_expand(s, pk.S2),
      S3_big |-> fft_expand(s, pk.S3) ]

\* Prover.round_3
round_3(prog, s) ==
    LET pk   == common_preprocessed_input(prog)
        n    == group_order
        k    == s.fft_cofactor
        QUOT_big    == QUOT_values(s, pk)
        QUOT_coeffs == expanded_evals_to_coeffs(s, QUOT_big)
        degree_ok   == SubSeq(QUOT_coeffs, 3 * n + 1, 4 * n) = Zeros(n)
        T1 == fft(SubSeq(QUOT_coeffs, 1, n))
        T2 == fft(SubSeq(QUOT_coeffs, n + 1, 2 * n))
        T3 == fft(SubSeq(QUOT_coeffs, 2 * n + 1, 3 * n))
        cross_ok == ( barycentric_eval(T1, k)
                      + barycentric_eval(T2, k) * Pow(k, n)
                      + barycentric_eval(T3, k) * Pow(k, 2 * n) ) % P = QUOT_big[1]
    IN  [ ok    |-> degree_ok /\ cross_ok,
          attrs |-> IF degree_ok
                    THEN [T1 |-> T1, T2 |-> T2, T3 |-> T3] @@ round_3_expansions(s, pk)
                    ELSE round_3_expansions(s, pk),
          msg   |-> <<commit(T1), commit(T2), commit(T3)>> ]

----------------------------------------------------------------------------
(* Round 4 *)

\* Prover.round_4: the six evaluations, stored and sent
round_4(prog, s) ==
    LET pk    == common_preprocessed_input(prog)
        zeta  == s.zeta
        omega == roots_of_unity(group_order)[2]
        a_eval  == barycentric_eval(s.A, zeta)
        b_eval  == barycentric_eval(s.B, zeta)
        c_eval  == barycentric_eval(s.C, zeta)
        s1_eval == barycentric_eval(pk.S1, zeta)
        s2_eval == barycentric_eval(pk.S2, zeta)
        z_shifted_eval == barycentric_eval(s.Z, (zeta * omega) % P)
    IN  [ ok    |-> TRUE,
          attrs |-> [ a_eval |-> a_eval, b_eval |-> b_eval, c_eval |-> c_eval,
                      s1_eval |-> s1_eval, s2_eval |-> s2_eval,
                      z_shifted_eval |-> z_shifted_eval ],
          msg   |-> <<a_eval, b_eval, c_eval, s1_eval, s2_eval, z_shifted_eval>> ]

----------------------------------------------------------------------------
(* Round 5 *)

\* R_values: the linearization polynomial on the coset
R_values(s, pk) ==
    LET n == group_order
        k == s.fft_cofactor
        zeta == s.zeta
        pi_eval == barycentric_eval(s.PI, zeta)
        l0_eval == barycentric_eval(L0_values, zeta)
        zh_eval == (Pow(zeta, n) + P - 1) % P
        T1_big == to_coset_extended_lagrange(s.T1, k)
        T2_big == to_coset_extended_lagrange(s.T2, k)
        T3_big == to_coset_extended_lagrange(s.T3, k)
        QL_big == to_coset_extended_lagrange(pk.QL, k)
        QR_big == to_coset_extended_lagrange(pk.QR, k)
        QM_big == to_coset_extended_lagrange(pk.QM, k)
        QO_big == to_coset_extended_lagrange(pk.QO, k)
        QC_big == to_coset_extended_lagrange(pk.QC, k)
        Z_big  == to_coset_extended_lagrange(s.Z, k)
        S3_big == to_coset_extended_lagrange(pk.S3, k)
        perm_1 == ( (s.a_eval + s.beta * zeta + s.gamma)
                    * (s.b_eval + s.beta * 2 * zeta + s.gamma)
                    * (s.c_eval + s.beta * 3 * zeta + s.gamma) * s.alpha ) % P
        perm_2 == ( (s.a_eval + s.beta * s.s1_eval + s.gamma)
                    * (s.b_eval + s.beta * s.s2_eval + s.gamma) ) % P
    IN  [i \in 1 .. 4 * n |->
          ( ( s.a_eval * QL_big[i] + s.b_eval * QR_big[i]
              + s.a_eval * s.b_eval * QM_big[i] + s.c_eval * QO_big[i]
              + pi_eval + QC_big[i] )
            + perm_1 * Z_big[i]
            + (P - 1) * ( (perm_2 * (s.c_eval + s.beta * S3_big[i] + s.gamma)) % P )
                * s.alpha * s.z_shifted_eval
            + (Z_big[i] + P - 1) * l0_eval * Pow(s.alpha, 2)
            + (P - 1) * ( ((T1_big[i] + Pow(zeta, n) * T2_big[i]
                              + Pow(zeta, 2 * n) * T3_big[i]) * zh_eval) % P ) ) % P]

\* W_z_values: (R + v (A - a) + .. + v^5 (S2 - s2)) / (X - zeta) on the coset
W_z_values(s, R_big) ==
    [i \in 1 .. 4 * group_order |->
        Div(( R_big[i]
              + s.v * (s.A_big[i] + P - s.a_eval)
              + Pow(s.v, 2) * (s.B_big[i] + P - s.b_eval)
              + Pow(s.v, 3) * (s.C_big[i] + P - s.c_eval)
              + Pow(s.v, 4) * (s.S1_big[i] + P - s.s1_eval)
              + Pow(s.v, 5) * (s.S2_big[i] + P - s.s2_eval) ) % P,
            (s.fft_cofactor * s.quarter_roots[i] + P - s.zeta) % P)]

\* W_zw_values divided by (X - zeta), omega forgotten
W_zw_values_no_omega(s) ==
    LET Z_big == to_coset_extended_lagrange(s.Z, s.fft_cofactor)
    IN  [i \in 1 .. 4 * group_order |->
            Div((Z_big[i] + P - s.z_shifted_eval) % P,
                (s.fft_cofactor * s.quarter_roots[i] + P - s.zeta) % P)]

\* W_zw_values: (Z - z_shifted_eval) / (X - zeta * omega) on the coset
W_zw_values(s) ==
    LET omega == roots_of_unity(group_order)[2]
        Z_big == to_coset_extended_lagrange(s.Z, s.fft_cofactor)
    IN  [i \in 1 .. 4 * group_order |->
            Div((Z_big[i] + P - s.z_shifted_eval) % P,
                (s.fft_cofactor * s.quarter_roots[i] + P - ((s.zeta * omega) % P)) % P)]

\* Prover.round_5; it stores nothing on the Prover
round_5(prog, s) ==
    LET pk == common_preprocessed_input(prog)
        n  == group_order
        k  == s.fft_cofactor
        R_big    == R_values(s, pk)
        R_coeffs == coset_extended_lagrange_to_coeffs(R_big, k)
        R        == fft(SubSeq(R_coeffs, 1, n))
        R_ok     == barycentric_eval(R, s.zeta) = 0
        W_z_coeffs  == coset_extended_lagrange_to_coeffs(W_z_values(s, R_big), k)
        W_z_ok      == SubSeq(W_z_coeffs, n + 1, 4 * n) = Zeros(3 * n)
        W_z         == fft(SubSeq(W_z_coeffs, 1, n))
        W_zw_coeffs == coset_extended_lagrange_to_coeffs(W_zw_values(s), k)
        W_zw_ok     == SubSeq(W_zw_coeffs, n + 1, 4 * n) = Zeros(3 * n)
        W_zw        == fft(SubSeq(W_zw_coeffs, 1, n))
    IN  [ ok    |-> R_ok /\ W_z_ok /\ W_zw_ok,
          attrs |-> <<>>,
          msg   |-> <<commit(W_z), commit(W_zw)>> ]

----------------------------------------------------------------------------
(* The transcript (Transcript of transcript.py), spec.md 4.3 and 6:        *)
(* challenges are a deterministic function of everything absorbed so far.  *)
(* The hash is sampled lazily: the first squeeze after a given history     *)
(* draws the challenges, every later squeeze after the same history        *)
(* repeats them.                                                           *)

\* a transcript that goes on from what the previous call absorbed
Transcript_carried(label) == [label |-> label, absorbed |-> transcript.absorbed]

\* Transcript(b"plonk")
Transcript(label) == [label |-> label, absorbed |-> <<>>]

\* the transcript after absorbing one more message
absorb(tr, msg) == [tr EXCEPT !.absorbed = Append(@, msg)]

\* the non-zero challenges a squeeze may return, per transcript round:
\* (beta, gamma), (alpha, fft_cofactor), (zeta), (v)
Challenges(k) ==
    CASE k = 1 -> { <<1, 8>>, <<6, 4>>, <<2, 5>>, <<3, 7>> }
      [] k = 2 -> { <<2, 3>>, <<2, 2>>, <<5, 16>> }
      [] k = 3 -> { <<3>>, <<4>>, <<16>> }
      [] k = 4 -> { <<2>>, <<5>> }

\* what squeezing transcript tr can return under the hash sampled so far
squeeze(tr, k) == IF tr \in DOMAIN oracle THEN {oracle[tr]} ELSE Challenges(k)

\* the attributes prove assigns from the challenges of transcript round k
challenge_attrs(k, ch) ==
    CASE k = 1 -> [beta |-> ch[1], gamma |-> ch[2]]
      [] k = 2 -> [alpha |-> ch[1], fft_cofactor |-> ch[2]]
      [] k = 3 -> [zeta |-> ch[1]]
      [] k = 4 -> [v |-> ch[1]]

----------------------------------------------------------------------------
(* Proof *)

\* Proof.flatten
flatten(m) ==
    [ a_1 |-> m[1][1], b_1 |-> m[1][2], c_1 |-> m[1][3],
      z_1 |-> m[2][1],
      t_lo_1 |-> m[3][1], t_mid_1 |-> m[3][2], t_hi_1 |-> m[3][3],
      a_eval |-> m[4][1], b_eval |-> m[4][2], c_eval |-> m[4][3],
      s1_eval |-> m[4][4], s2_eval |-> m[4][5], z_shifted_eval |-> m[4][6],
      W_z_1 |-> m[5][1], W_zw_1 |-> m[5][2] ]

\* what a prove call that returned gave its caller
Returned(m) == [raised |-> "", proof |-> flatten(m)]

\* what a prove call that raised gave its caller: the step that raised, no Proof
Raised(step) == [raised |-> step, proof |-> <<>>]

----------------------------------------------------------------------------
(* Prover.prove *)

\* prove with round 2 started before the challenges of round 1 are squeezed
prove_steps_early_round_2 ==
    << "round_1", "round_2", "transcript.round_1", "transcript.round_2",
       "round_3", "transcript.round_3",
       "round_4", "transcript.round_4",
       "round_5", "return" >>

\* the statements of prove after PI, in program order
prove_steps ==
    << "round_1", "transcript.round_1",
       "round_2", "transcript.round_2",
       "round_3", "transcript.round_3",
       "round_4", "transcript.round_4",
       "round_5", "return" >>

\* the statement that follows `step` in prove
step_after(step) ==
    prove_steps[(CHOOSE i \in 1 .. Len(prove_steps) : prove_steps[i] = step) + 1]

\* the attributes of self a round reads; a missing one raises AttributeError
round_reads(step) ==
    CASE step = "round_1" -> {"PI"}
      [] step = "round_2" -> {"A", "B", "C", "beta", "gamma"}
      [] step = "round_3" -> {"A", "B", "C", "PI", "Z", "beta", "gamma", "alpha", "fft_cofactor"}
      [] step = "round_4" -> {"A", "B", "C", "Z", "zeta"}
      [] step = "round_5" -> {"A", "B", "C", "PI", "Z", "T1", "T2", "T3",
                              "beta", "gamma", "alpha", "fft_cofactor", "zeta", "v",
                              "a_eval", "b_eval", "c_eval", "s1_eval", "s2_eval",
                              "z_shifted_eval", "A_big", "B_big", "C_big",
                              "S1_big", "S2_big", "quarter_roots"}

\* self after the assignments `self.a = attrs[a]`
store(s, attrs) == attrs @@ s

\* the assignment counts after the assignments `self.a = attrs[a]`
count(w, attrs) ==
    [a \in DOMAIN w \cup DOMAIN attrs |->
        (IF a \in DOMAIN w THEN w[a] ELSE 0) + (IF a \in DOMAIN attrs THEN 1 ELSE 0)]

Inputs ==
    { [program |-> ProgramSquare, witness |-> [x |-> 2, y |-> 4]],
      [program |-> ProgramSquare, witness |-> [x |-> 3, y |-> 9, None |-> 5]],
      [program |-> ProgramSquare, witness |-> [x |-> 2, y |-> 9]],
      [program |-> ProgramPublic, witness |-> [x |-> 3]],
      [program |-> ProgramPublic, witness |-> [x |-> 3, None |-> 5]],
      [program |-> ProgramPublic, witness |-> [x |-> 3, None |-> 0]] }

\* Prover(setup, program), and the witness its caller holds
Init ==
    /\ \E input \in Inputs :
          /\ program = input.program
          /\ witness = input.witness
    /\ self = <<>>
    /\ pc = "idle"
    /\ transcript = [label |-> "", absorbed |-> <<>>]
    /\ msgs = <<>>
    /\ oracle = <<>>
    /\ results = <<>>
    /\ writes = <<>>

\* prove is called, on this Prover or on a fresh Prover(setup, program), with
\* the caller's witness: the transcript is initialised and PI is built
Prove ==
    /\ pc \in {"idle", "returned", "raised"}
    /\ Len(results) < MaxCalls
    /\ \E fresh \in (IF Len(results) = 0 THEN {FALSE} ELSE BOOLEAN) :
          LET PI == [PI |-> PI_values(program, witness)]
          IN  self' = store(IF fresh THEN <<>> ELSE self, PI)
    /\ writes' = [PI |-> 1]
    /\ transcript' = Transcript("plonk")
    /\ msgs' = <<>>
    /\ pc' = prove_steps[1]
    /\ UNCHANGED <<program, witness, oracle, results>>

\* msg_1 = self.round_1(witness)
Round1 ==
    /\ pc = "round_1"
    /\ LET r == round_1(program, self, witness)
       IN  /\ witness' = r.witness
           /\ self' = store(self, r.attrs)
           /\ writes' = count(writes, r.attrs)
           /\ IF r.ok
              THEN /\ msgs' = (1 :> r.msg) @@ msgs
                   /\ pc' = step_after("round_1")
                   /\ UNCHANGED results
              ELSE /\ pc' = "raised"
                   /\ results' = Append(results, Raised("round_1"))
                   /\ UNCHANGED msgs
    /\ UNCHANGED <<program, transcript, oracle>>

\* msg_k = self.round_k() for k = 2 .. 5, r being what round_k computes
RunRound(step, k, r) ==
    /\ witness' = witness
    /\ IF r.ok
       THEN /\ self' = store(self, r.attrs)
            /\ writes' = count(writes, r.attrs)
            /\ msgs' = (k :> r.msg) @@ msgs
            /\ pc' = step_after(step)
            /\ UNCHANGED results
       ELSE /\ self' = store(self, r.attrs)
            /\ writes' = count(writes, r.attrs)
            /\ pc' = "raised"
            /\ results' = Append(results, Raised(step))
            /\ UNCHANGED msgs
    /\ UNCHANGED <<program, transcript, oracle>>

\* a round that reads an attribute nothing has assigned raises AttributeError
MissingAttribute(step) ==
    /\ pc' = "raised"
    /\ results' = Append(results, Raised(step))
    /\ UNCHANGED <<program, witness, self, transcript, msgs, oracle, writes>>

Round2 ==
    /\ pc = "round_2"
    /\ IF round_reads("round_2") \subseteq DOMAIN self
       THEN RunRound("round_2", 2, round_2(program, self))
       ELSE MissingAttribute("round_2")

Round3 ==
    /\ pc = "round_3"
    /\ IF round_reads("round_3") \subseteq DOMAIN self
       THEN RunRound("round_3", 3, round_3(program, self))
       ELSE MissingAttribute("round_3")

Round4 ==
    /\ pc = "round_4"
    /\ IF round_reads("round_4") \subseteq DOMAIN self
       THEN RunRound("round_4", 4, round_4(program, self))
       ELSE MissingAttribute("round_4")

Round5 ==
    /\ pc = "round_5"
    /\ IF round_reads("round_5") \subseteq DOMAIN self
       THEN RunRound("round_5", 5, round_5(program, self))
       ELSE MissingAttribute("round_5")

\* self.<challenges> = transcript.round_k(msg_k): absorb msg_k, squeeze
TranscriptRound(k, step) ==
    /\ pc = step
    /\ IF k \in DOMAIN msgs
       THEN LET tr == absorb(transcript, msgs[k])
            IN  \E ch \in squeeze(tr, k) :
                  /\ transcript' = tr
                  /\ oracle' = (tr :> ch) @@ oracle
                  /\ self' = store(self, challenge_attrs(k, ch))
                  /\ writes' = count(writes, challenge_attrs(k, ch))
                  /\ pc' = step_after(step)
                  /\ UNCHANGED <<program, witness, msgs, results>>
       ELSE \* msg_k is an unbound local: UnboundLocalError
            /\ pc' = "raised"
            /\ results' = Append(results, Raised(step))
            /\ UNCHANGED <<program, witness, self, transcript, msgs, oracle, writes>>

TranscriptRound1 == TranscriptRound(1, "transcript.round_1")

TranscriptRound2 == TranscriptRound(2, "transcript.round_2")

TranscriptRound3 == TranscriptRound(3, "transcript.round_3")

TranscriptRound4 == TranscriptRound(4, "transcript.round_4")

\* return Proof(msg_1, msg_2, msg_3, msg_4, msg_5)
Return ==
    /\ pc = "return"
    /\ IF DOMAIN msgs = 1 .. 5
       THEN /\ pc' = "returned"
            /\ results' = Append(results, Returned(msgs))
       ELSE /\ pc' = "raised"
            /\ results' = Append(results, Raised("return"))
    /\ UNCHANGED <<program, witness, self, transcript, msgs, oracle, writes>>

Next ==
    \/ Prove
    \/ Round1
    \/ TranscriptRound1
    \/ Round2
    \/ TranscriptRound2
    \/ Round3
    \/ TranscriptRound3
    \/ Round4
    \/ TranscriptRound4
    \/ Round5
    \/ Return

Spec == Init /\ [][Next]_vars

----------------------------------------------------------------------------
(* Vocabulary of the properties *)

\* the result of the prove call that finished last
LastResult == results[Len(results)]

\* the current prove call raised in `step`
RaisedIn(step) == pc = "raised" /\ LastResult.raised = step

\* round k of the current prove call has run to its end, passing or raising
Round2Ran == 2 \in DOMAIN msgs \/ RaisedIn("round_2")

\* round 3, resp. round 5, of the current prove call was the last step taken
Round3Ran == pc = "transcript.round_3" \/ RaisedIn("round_3")

Round5Ran == pc = "return" \/ RaisedIn("round_5")

\* the permutation polynomial of a column, as the Prover holds it in pk
S_of(column) == s_polynomial(program, column)

\* the value round 1 put on a cell: A, B or C at the cell's row
CellValue(cell) ==
    (CASE cell[1] = 1 -> self.A [] cell[1] = 2 -> self.B [] cell[1] = 3 -> self.C)[cell[2]]

\* the witness agrees on every two cells the permutation S1, S2, S3 links
CopyConsistent ==
    \A c \in Cells, d \in Cells :
        S_of(c[1])[c[2]] = cell_label(d) => CellValue(c) = CellValue(d)

\* the 3n numerator and the 3n denominator factors of the grand product
Numerators(b, g) ==
    [c \in Cells |-> (CellValue(c) + b * cell_label(c) + g) % P]

Denominators(b, g) ==
    [c \in Cells |-> (CellValue(c) + b * S_of(c[1])[c[2]] + g) % P]

RECURSIVE ProductOver(_, _)
ProductOver(f, cells) ==
    IF cells = {} THEN 1
    ELSE LET c == CHOOSE x \in cells : TRUE
         IN  (f[c] * ProductOver(f, cells \ {c})) % P

\* the challenges (beta, gamma) at which round 2 passes for the wire values
\* round 1 stored: no denominator is zero and the two products coincide
PassingChallenges ==
    { bg \in F \X F :
        /\ \A c \in Cells : Denominators(bg[1], bg[2])[c] # 0
        /\ ProductOver(Numerators(bg[1], bg[2]), Cells)
             = ProductOver(Denominators(bg[1], bg[2]), Cells) }

\* the subgroup H of order n and the subgroup H' of order 4n
InH(k) == Pow(k, group_order) = 1

InHprime(k) == Pow(k, 4 * group_order) = 1

\* the points of the coset fft_cofactor * H'
CosetPoints == {(self.fft_cofactor * quarter_roots[i]) % P : i \in 1 .. 4 * group_order}

\* zeta or zeta * omega is a point of the coset
Collision ==
    \/ self.zeta \in CosetPoints
    \/ (self.zeta * roots_of_unity(group_order)[2]) % P \in CosetPoints

\* the left-hand side of the gate identity at row i, from the witness mapping
GateResidue(i) ==
    LET val(column) ==
            IF i > Len(program.wires) THEN 0
            ELSE LET name == program.wires[i][column]
                 IN  IF name \in DOMAIN witness THEN witness[name] % P ELSE 0
        pi == IF i <= Len(program.public) THEN P - (witness[program.public[i]] % P) ELSE 0
    IN  ( val(1) * program.QL[i] + val(2) * program.QR[i]
          + val(1) * val(2) * program.QM[i] + val(3) * program.QO[i]
          + pi + program.QC[i] ) % P

GateViolated == \E i \in 1 .. group_order : GateResidue(i) # 0

\* the attributes of self holding a challenge, by transcript round
ChallengeNames(k) ==
    CASE k = 1 -> {"beta", "gamma"}
      [] k = 2 -> {"alpha", "fft_cofactor"}
      [] k = 3 -> {"zeta"}
      [] k = 4 -> {"v"}

\* the proof state of spec.md 3: polynomials, evaluations and challenges
ProofState ==
    {"A", "B", "C", "Z", "T1", "T2", "T3",
     "a_eval", "b_eval", "c_eval", "s1_eval", "s2_eval", "z_shifted_eval",
     "beta", "gamma", "alpha", "fft_cofactor", "zeta", "v"}

\* the transcript of the current call once messages 1 .. j are absorbed
TranscriptAfter(j) == [label |-> "plonk", absorbed |-> [i \in 1 .. j |-> msgs[i]]]

\* the challenges of transcript round j are on self, assigned in this call,
\* and are the ones the hash gives after messages 1 .. j
Squeezed(j) ==
    /\ ChallengeNames(j) \subseteq DOMAIN self
    /\ \A a \in ChallengeNames(j) : a \in DOMAIN writes /\ writes[a] = 1
    /\ TranscriptAfter(j) \in DOMAIN oracle
    /\ \A a \in ChallengeNames(j) :
          self[a] = challenge_attrs(j, oracle[TranscriptAfter(j)])[a]

----------------------------------------------------------------------------
(* C1: order of the rounds and of the challenges *)

\* C1: in every prove call the rounds run in the order round_1 .. round_5;
\* when round k+1 is about to start, messages 1 .. k and no others have been
\* produced and absorbed by the transcript in that order, and the challenges
\* of every earlier transcript round are on self, assigned in this very call
\* and equal to what the transcript gives after the messages absorbed so far;
\* when message k is about to be absorbed, exactly k - 1 messages have been.
C1_RoundsInOrder ==
    /\ \A k \in 1 .. 5 :
          pc = prove_steps[2 * k - 1] =>
              /\ pc = CASE k = 1 -> "round_1" [] k = 2 -> "round_2" [] k = 3 -> "round_3"
                        [] k = 4 -> "round_4" [] k = 5 -> "round_5"
              /\ DOMAIN msgs = 1 .. (k - 1)
              /\ transcript = TranscriptAfter(k - 1)
              /\ \A j \in 1 .. (k - 1) : Squeezed(j)
              /\ \A j \in k .. 4 : \A a \in ChallengeNames(j) : a \notin DOMAIN writes
    /\ \A k \in 1 .. 4 :
          pc = prove_steps[2 * k] =>
              /\ pc = CASE k = 1 -> "transcript.round_1" [] k = 2 -> "transcript.round_2"
                        [] k = 3 -> "transcript.round_3" [] k = 4 -> "transcript.round_4"
              /\ DOMAIN msgs = 1 .. k
              /\ transcript = TranscriptAfter(k - 1)
    /\ pc \in {"return", "returned"} =>
          /\ DOMAIN msgs = 1 .. 5
          /\ transcript = TranscriptAfter(4)
          /\ \A j \in 1 .. 4 : Squeezed(j)

\* C1 witness: a second prove call, on a Prover that still holds the alpha,
\* zeta and v of the first call, is about to start round 2
C1_Witness ==
    /\ pc = "round_2"
    /\ Len(results) = 1
    /\ {"alpha", "zeta", "v"} \subseteq DOMAIN self

----------------------------------------------------------------------------
(* C2: a witness that breaks a gate *)

\* C2: if the witness makes the gate identity non-zero at some row of H, no
\* Message1 is produced, nothing is absorbed or squeezed, no challenge is
\* assigned, no later round starts, and every finished call raised in round_1
\* and gave no Proof.
C2_GateFailureAborts ==
    GateViolated =>
        /\ DOMAIN msgs = {}
        /\ transcript.absorbed = <<>>
        /\ DOMAIN oracle = {}
        /\ \A k \in 1 .. 4 : ChallengeNames(k) \cap DOMAIN self = {}
        /\ pc \in {"idle", "round_1", "raised"}
        /\ \A i \in DOMAIN results : results[i] = Raised("round_1")

\* C2 witness: round_1 has raised on a witness that breaks a gate
C2_Witness == GateViolated /\ RaisedIn("round_1")

----------------------------------------------------------------------------
(* C3: the grand product of a consistent witness *)

\* C3 as claimed: for a witness that agrees on all linked cells, whatever
\* (beta, gamma) the transcript returned, round 2 passes its assertions and
\* stores Z with exactly n values, Z_0 = 1.
C3_AnyChallenge ==
    (Round2Ran /\ CopyConsistent) =>
        /\ 2 \in DOMAIN msgs
        /\ Len(self.Z) = group_order
        /\ self.Z[1] = 1

\* C3 amended: for a witness that agrees on all linked cells and challenges
\* (beta, gamma) at which none of the 3n denominator factors is zero, the
\* numerator and denominator products coincide (Z_n = 1), round 2 passes its
\* assertions and stores Z with exactly n values, Z_0 = 1, assigned once; at
\* challenges where a denominator factor is zero round 2 raises.
C3_NonZeroDenominators ==
    (Round2Ran /\ CopyConsistent) =>
        IF \A c \in Cells : Denominators(self.beta, self.gamma)[c] # 0
        THEN /\ <<self.beta, self.gamma>> \in PassingChallenges
             /\ 2 \in DOMAIN msgs
             /\ "Z" \in DOMAIN writes /\ writes["Z"] = 1
             /\ Len(self.Z) = group_order
             /\ self.Z[1] = 1
             /\ msgs[2] = <<commit(self.Z)>>
        ELSE RaisedIn("round_2") /\ "Z" \notin DOMAIN writes

\* C3 witness: round 2 passed for the consistent witness of the circuit whose
\* variable x sits on three linked cells
C3_Witness ==
    /\ program = ProgramSquare
    /\ 2 \in DOMAIN msgs
    /\ CopyConsistent
    /\ self.Z # <<1, 1>>

----------------------------------------------------------------------------
(* C4: the grand product of an inconsistent witness *)

\* C4 as claimed: with a witness that passed round 1 but disagrees on two
\* linked cells, round 2 raises and produces no Message2 for the challenges
\* (beta, gamma) the transcript returned.
C4_AlwaysRejected ==
    (Round2Ran /\ ~CopyConsistent) => (RaisedIn("round_2") /\ 2 \notin DOMAIN msgs)

\* C4 amended: with a witness that passed round 1 but disagrees on two linked
\* cells, round 2 raises and produces no Message2 for every (beta, gamma)
\* except those at which no denominator factor is zero and the numerator and
\* denominator products coincide; at those it passes and produces Message2.
\* They are at most 3n|F| of the |F|^2 pairs, and beta = 0 is among them.
C4_RejectedUnlessProductsCoincide ==
    (1 \in DOMAIN msgs /\ ~CopyConsistent) =>
        /\ pc = "transcript.round_1" =>
              /\ Cardinality(PassingChallenges) <= 3 * group_order * P
              /\ \E g \in F : <<0, g>> \in PassingChallenges
        /\ Round2Ran =>
              IF <<self.beta, self.gamma>> \in PassingChallenges
              THEN 2 \in DOMAIN msgs /\ msgs[2] = <<commit(self.Z)>>
              ELSE RaisedIn("round_2") /\ 2 \notin DOMAIN msgs

\* C4 witness: round 2 has raised on a witness that passed round 1 and
\* disagrees on two linked cells
C4_Witness == ~GateViolated /\ RaisedIn("round_2") /\ ~CopyConsistent

----------------------------------------------------------------------------
(* C5: determinism *)

\* C5: all prove calls made with the same setup, program and witness, on the
\* same Prover or on a fresh one, give their caller the same thing: the same
\* fifteen flattened proof fields, or a raise in the same step.
C5_Deterministic ==
    \A i \in DOMAIN results, j \in DOMAIN results : results[i] = results[j]

\* C5 witness: a second call, with the witness mapping the first call
\* extended by the None key, has returned a Proof
C5_Witness ==
    /\ Len(results) = 2
    /\ pc = "returned"
    /\ program = ProgramSquare
    /\ witness = [x |-> 2, y |-> 4, None |-> 0]

----------------------------------------------------------------------------
(* C6: lifetime of the proof state *)

\* C6 as claimed: every element of the proof state is assigned at most once
\* in a prove call, and the Prover holds none of them once prove has returned
\* or raised.
C6_DiscardedOnReturn ==
    /\ \A a \in ProofState \cap DOMAIN writes : writes[a] = 1
    /\ pc \in {"returned", "raised"} => ProofState \cap DOMAIN self = {}

\* C6 amended: every element of the proof state is assigned at most once in a
\* prove call, and exactly once in a call that returns; it is not discarded:
\* what a call assigned is still on the Prover after the call returned or
\* raised, until a later call assigns it again.
\* From its assignment on an element keeps its value through every later
\* step of the call and after it, up to the start of the next call.
C6_KeptOnReturn ==
    /\ [](/\ \A a \in ProofState \cap DOMAIN writes : writes[a] = 1
          /\ DOMAIN writes \subseteq DOMAIN self
          /\ pc = "returned" => ProofState \subseteq DOMAIN writes
          /\ pc \in {"returned", "raised"} => {"A", "B", "C"} \subseteq DOMAIN self)
    /\ [][\A a \in ProofState \cap DOMAIN self :
            (a \in DOMAIN writes /\ pc' # "round_1")
                => (a \in DOMAIN self' /\ self'[a] = self[a])]_vars

\* C6 witness: a call has returned and the Prover holds the whole proof state
C6_Witness == pc = "returned" /\ ProofState \subseteq DOMAIN self

----------------------------------------------------------------------------
(* C7: degree of the quotient *)

\* the monomial coefficients of the quotient round 3 computes from self
QuotientCoeffs ==
    expanded_evals_to_coeffs(self, QUOT_values(self, common_preprocessed_input(program)))

\* C7 as claimed: whenever rounds 1 and 2 passed, round 3 passes its
\* assertions: the quotient has zero coefficients at [3n, 4n).
C7_AnyCoset ==
    Round3Ran => (3 \in DOMAIN msgs /\ SubSeq(QuotientCoeffs, 3 * group_order + 1, 4 * group_order) = Zeros(group_order))

\* C7 amended: whenever rounds 1 and 2 passed and the coset shift kappa is
\* outside H' (kappa^(4n) # 1, so Z_H is non-zero on the whole coset), the
\* quotient has zero coefficients at [3n, 4n), round 3 passes its assertions,
\* and T1, T2, T3 are the three chunks of n coefficients of the quotient.
C7_CosetOffDomain ==
    (Round3Ran /\ ~InHprime(self.fft_cofactor)) =>
        /\ 3 \in DOMAIN msgs
        /\ SubSeq(QuotientCoeffs, 3 * group_order + 1, 4 * group_order) = Zeros(group_order)
        /\ ifft(self.T1) = SubSeq(QuotientCoeffs, 1, group_order)
        /\ ifft(self.T2) = SubSeq(QuotientCoeffs, group_order + 1, 2 * group_order)
        /\ ifft(self.T3) = SubSeq(QuotientCoeffs, 2 * group_order + 1, 3 * group_order)
        /\ msgs[3] = <<commit(self.T1), commit(self.T2), commit(self.T3)>>

\* C7 witness: round 3 passed on a coset off H' with a quotient that is not zero
C7_Witness ==
    /\ 3 \in DOMAIN msgs
    /\ ~InHprime(self.fft_cofactor)
    /\ self.T1 # Zeros(group_order)
    /\ self.T2 # Zeros(group_order)

----------------------------------------------------------------------------
(* C8: degree of the opening polynomials *)

\* the monomial coefficients of W_z and W_zw round 5 computes from self
WzCoeffs ==
    coset_extended_lagrange_to_coeffs(
        W_z_values(self, R_values(self, common_preprocessed_input(program))),
        self.fft_cofactor)

WzwCoeffs == coset_extended_lagrange_to_coeffs(W_zw_values(self), self.fft_cofactor)

\* C8 as claimed: in every prove call that reached round 5, W_z and W_zw
\* have zero coefficients at [n, 4n) and both assertions of round 5 pass.
C8_AnyPoint ==
    Round5Ran =>
        /\ 5 \in DOMAIN msgs
        /\ SubSeq(WzCoeffs, group_order + 1, 4 * group_order) = Zeros(3 * group_order)
        /\ SubSeq(WzwCoeffs, group_order + 1, 4 * group_order) = Zeros(3 * group_order)

\* C8 amended: in every prove call that reached round 5 with neither zeta nor
\* zeta * omega on the coset kappa * H', W_z and W_zw have zero coefficients
\* at [n, 4n), both assertions of round 5 pass, and the committed low n
\* coefficients are the exact quotients: times (X - zeta), resp.
\* (X - zeta * omega), they give back the numerators at every coset point.
C8_NoCollision ==
    (Round5Ran /\ ~Collision) =>
        /\ 5 \in DOMAIN msgs
        /\ SubSeq(WzCoeffs, group_order + 1, 4 * group_order) = Zeros(3 * group_order)
        /\ SubSeq(WzwCoeffs, group_order + 1, 4 * group_order) = Zeros(3 * group_order)
        /\ LET Z_big == fft_expand(self, self.Z)
               W_zw  == fft_expand(self, fft(SubSeq(WzwCoeffs, 1, group_order)))
               omega == roots_of_unity(group_order)[2]
           IN  \A i \in 1 .. 4 * group_order :
                  (W_zw[i] * (self.fft_cofactor * quarter_roots[i] + P * P - self.zeta * omega)) % P
                      = (Z_big[i] + P - self.z_shifted_eval) % P
        /\ msgs[5] = << commit(fft(SubSeq(WzCoeffs, 1, group_order))),
                        commit(fft(SubSeq(WzwCoeffs, 1, group_order))) >>

\* C8 witness: round 5 passed with zeta and zeta * omega off the coset and a
\* non-constant Z
C8_Witness ==
    /\ 5 \in DOMAIN msgs
    /\ ~Collision
    /\ self.Z[2] # 1

----------------------------------------------------------------------------
(* C9: the vanishing polynomial on the coset *)

\* C9 as claimed: for a coset shift kappa outside H, Z_H is non-zero at
\* every one of the 4n coset points round 3 divides at.
C9_OutsideH ==
    (Round3Ran /\ ~InH(self.fft_cofactor)) =>
        \A i \in 1 .. 4 * group_order : ZH_values(self.fft_cofactor)[i] # 0

\* C9 amended: for a coset shift kappa outside H' (the subgroup of order 4n),
\* Z_H is non-zero at every one of the 4n coset points, so round 3 never
\* divides by zero; for every kappa in H' it is zero at n of the 4n points.
C9_OutsideHprime ==
    /\ \A k \in 1 .. (P - 1) :
          IF InHprime(k)
          THEN Cardinality({i \in 1 .. 4 * group_order : ZH_values(k)[i] = 0}) = group_order
          ELSE \A i \in 1 .. 4 * group_order : ZH_values(k)[i] # 0
    /\ (Round3Ran /\ ~InHprime(self.fft_cofactor)) =>
          \A i \in 1 .. 4 * group_order : ZH_values(self.fft_cofactor)[i] # 0

\* C9 witness: round 3 ran on a coset whose shift is outside H'
C9_Witness == Round3Ran /\ ~InHprime(self.fft_cofactor) /\ 3 \in DOMAIN msgs

----------------------------------------------------------------------------
(* C10: a challenge that hits the coset *)

----------------------------------------------------------------------------
(* C11: what prove does to the caller's witness mapping *)

\* the value round_1 puts in a column at row i: the witness of the wire for a
\* row of wires(), 0 for a row past the last gate
ColumnValue(column, i) ==
    IF i <= Len(program.wires) THEN witness[program.wires[i][column]] % P ELSE 0

\* C11: the only change prove makes to the caller's witness mapping is to add
\* the key None with value 0 when the key is absent; an existing None entry,
\* whatever its value, and every other entry stay as they are, in calls that
\* return and in calls that raise. Once round_1 has run the mapping has
\* the key, and A, B, C hold the witness of the wire on the rows of wires()
\* and 0 on the rows past len(wires()).
C11_OnlyEmptyWireAdded ==
    /\ [](/\ (Len(results) > 0 \/ pc \notin {"idle", "round_1"})
                => NoWire \in DOMAIN witness
          /\ "A" \in DOMAIN self =>
                /\ NoWire \in DOMAIN witness
                /\ \A i \in 1 .. group_order :
                      /\ self.A[i] = ColumnValue(1, i)
                      /\ self.B[i] = ColumnValue(2, i)
                      /\ self.C[i] = ColumnValue(3, i))
    /\ [][\/ witness' = witness
          \/ /\ pc = "round_1"
             /\ NoWire \notin DOMAIN witness
             /\ DOMAIN witness' = DOMAIN witness \cup {NoWire}
             /\ witness'[NoWire] = 0
             /\ \A k \in DOMAIN witness : witness'[k] = witness[k]]_vars

\* C11 witness: a call made with a mapping that had no None key has raised
\* in round_1, on the gate x * x = y; the caller's mapping now has None -> 0
\* next to its own entries, which are as they were
C11_Witness ==
    /\ program = ProgramSquare
    /\ witness = [x |-> 2, y |-> 9, None |-> 0]
    /\ RaisedIn("round_1")
    /\ self.A = <<2, 2>> /\ self.B = <<0, 2>> /\ self.C = <<0, 9>>

====
